---------------------------- MODULE Spec2Model ----------------------------
(***************************************************************************)
(* Model of the xclock hook/event core.                                    *)
(*                                                                         *)
(*   core_*  : src/xclock/src/lib.rs      (mouse hook + overlay tooltip)   *)
(*   mon_*   : src/xclock/src/lib_new.rs  (loader of the hook DLL)         *)
(*   hook DLL: src/xclock-hook/src/lib.rs (CBT hook + in-place mutation)   *)
(*                                                                         *)
(* Strings are sequences of one-character strings, so that contains(),     *)
(* equality and formatting are computed on the characters.                 *)
(***************************************************************************)
EXTENDS Integers, Sequences, FiniteSets, TLC

\* ------------------------------------------------------------------ bounds
MaxHooks == 2          \* hook handles the OS can hand out
NumThreads == 2        \* application threads that may call start/stop
MaxWorkers == 2        \* deferred worker threads alive at once
MaxTipWindows == 1     \* window handles of the hooked desktop
MaxTime == 700         \* last instant of the model clock, in ms
TimeStep == 100        \* granularity of the model clock, in ms
MaxHookCalls == 1      \* cap of HOOK_CALL_COUNT
BootSeconds == 300     \* seconds since boot at instant 0
EnvWeek == 44          \* ISO week of the local date
EnvYear == 2026        \* ISO year of the local date
ScreenHeight == 1080   \* GetSystemMetrics(SM_CYSCREEN)
MaxDays == 2           \* largest number of whole days of uptime drawn
MaxMessages == 2       \* messages waiting in the queue of the main thread
MaxLongDays == 50      \* largest number of whole days of a long uptime drawn

\* -------------------------------------------------------- program constants
TOOLTIP_UPDATE_COOLDOWN == 500
SETTLE_DELAY == 100
DEBOUNCE_DELAY == 100
TASKBAR_BAND == 200
HCBT_CREATEWND == 3
TIMER_MS == 5000
U32_S == 4294967
U32_MS == 296

NULL == 0

\* ----------------------------------------------------------------- strings
TOOLTIPS_CLASS == <<"t", "o", "o", "l", "t", "i", "p", "s", "_", "c", "l", "a", "s", "s", "3", "2">>
S_Shell_TrayWnd == <<"S", "h", "e", "l", "l", "_", "T", "r", "a", "y", "W", "n", "d">>
S_TrayNotifyWnd == <<"T", "r", "a", "y", "N", "o", "t", "i", "f", "y", "W", "n", "d">>
S_TrayClockWClass == <<"T", "r", "a", "y", "C", "l", "o", "c", "k", "W", "C", "l", "a", "s", "s">>
S_ClockWClass == <<"C", "l", "o", "c", "k", "W", "C", "l", "a", "s", "s">>
S_DigitalClockWClass == <<"D", "i", "g", "i", "t", "a", "l", "C", "l", "o", "c", "k", "W", "C", "l", "a", "s", "s">>
S_Unknown == <<"U", "n", "k", "n", "o", "w", "n">>
S_Clock == <<"C", "l", "o", "c", "k">>
S_Time == <<"T", "i", "m", "e">>
S_Button == <<"B", "u", "t", "t", "o", "n">>
S_SysDateTimePick32 == <<"S", "y", "s", "D", "a", "t", "e", "T", "i", "m", "e", "P", "i", "c", "k", "3", "2">>
S_Opptid == <<"\n", "O", "p", "p", "t", "i", "d", ":", " ">>
S_Uke == <<"U", "k", "e", " ">>
S_UptimeLabel == <<"U", "p", "t", "i", "m", "e", ":", " ">>
S_WeekLabel == <<"\n", "W", "e", "e", "k", " ">>
S_NoSuffix == <<" ", "(", "N", "O", ")">>
S_Empty == <<>>
S_TimeText == <<"9", ":", "0", "5">>
S_PlainText == <<"H", "i">>

\* str.contains(sub)
Contains(s, sub) ==
    \E i \in 1..(Len(s) - Len(sub) + 1) : SubSeq(s, i, i + Len(sub) - 1) = sub

Digit(d) == <<"0", "1", "2", "3", "4", "5", "6", "7", "8", "9">>[d + 1]

\* format!("{}", n) of an unsigned integer
RECURSIVE DecStr(_)
DecStr(n) == IF n < 10 THEN <<Digit(n)>> ELSE DecStr(n \div 10) \o <<Digit(n % 10)>>

\* Rust integer division of i32: truncation towards zero
TruncDiv(a, b) == IF a >= 0 THEN a \div b ELSE -((-a) \div b)

\* ------------------------------------------------------------------- state
VARIABLES
    \* operating system and desktop
    now,               \* monotonic clock (Instant), ms
    bootTicks,         \* time since boot at instant 0
    osCbtHooks,        \* installed WH_CBT hooks of this program
    osMouseHooks,      \* installed WH_MOUSE_LL hooks of this program
    dllRefs,           \* load count of xclock_hook.dll in the application
    classRegistered,   \* window class ClockHoverTooltip is registered
    shellWin,          \* shell windows: handle -> [cls, rect] or NoWin
    tip,               \* desktop windows seen by the CBT hook
    overlayWins,       \* existing overlay windows created by show_tooltip
    \* src/xclock/src/lib.rs
    core_HOOK_HANDLE,
    TOOLTIP_WINDOW,
    CLOCK_WINDOWS,
    core_RUNNING,
    TOOLTIP_VISIBLE,
    mh,                \* the hook thread inside mouse_hook_proc
    \* src/xclock/src/lib_new.rs
    RUNNING,
    HOOK_DLL,
    mon,               \* per application thread: position and locals
    \* src/xclock-hook/src/lib.rs
    HOOK_INSTALLED,
    HOOK_HANDLE,
    LAST_TOOLTIP_UPDATE,
    HOOK_CALL_COUNT,
    workers,
    \* observation of the run
    last,              \* the last completed call or callback and its result
    fault,             \* the process executed unmapped code
    writes,            \* successful SetWindowTextW calls of the mutator
    \* the position of the pointer, and the results of the pure functions
    pt,
    hit,
    uptimeOut,
    \* the build
    variant,           \* the crate root the application is built from
    cli                \* src/xclock-cli/src/main.rs: the main thread of "xclock start"

osVars == <<now, bootTicks, osCbtHooks, osMouseHooks, dllRefs, classRegistered,
            shellWin, tip, overlayWins>>
coreVars == <<core_HOOK_HANDLE, TOOLTIP_WINDOW, CLOCK_WINDOWS, core_RUNNING,
              TOOLTIP_VISIBLE, mh>>
monVars == <<RUNNING, HOOK_DLL, mon>>
dllVars == <<HOOK_INSTALLED, HOOK_HANDLE, LAST_TOOLTIP_UPDATE, HOOK_CALL_COUNT,
             workers>>
obsVars == <<last, fault, writes>>
fnVars == <<pt, hit, uptimeOut>>
vars == <<osVars, coreVars, monVars, dllVars, obsVars, fnVars, variant, cli>>

HookIds == 1..MaxHooks
Threads == 1..NumThreads
WorkerIds == 1..MaxWorkers
TipHwnds == 1..MaxTipWindows
Variants == {"lib.rs", "lib_new.rs"}
NoTip == [exists |-> FALSE, cls |-> S_Empty, text |-> S_Empty, top |-> 0]
NoShellWin == [exists |-> FALSE, cls |-> S_Empty, rect |-> <<0, 0, 0, 0>>]
None == -1


Last(op, res) == [op |-> op, res |-> res, fwd |-> 0, ret |-> 0, chain |-> 0]
IdleThread == [pc |-> "idle", hook |-> NULL, result |-> 0]
FreeWorker == [pc |-> "free", hwnd |-> NULL, wake |-> 0, text |-> S_Empty, stamp |-> 0,
               origin |-> S_Empty]

\* the handle SetWindowsHookExW returns: one not in use, NULL when none is left
NewHook(inUse) == IF HookIds \ inUse = {} THEN NULL
                  ELSE CHOOSE h \in HookIds \ inUse : \A g \in HookIds \ inUse : h <= g

SetPc(t, pc) == [mon EXCEPT ![t].pc = pc]
Return(t) == [mon EXCEPT ![t] = IdleThread]

\* a thread runs code of a DLL that FreeLibrary has unmapped
Crash == /\ fault' = TRUE
         /\ UNCHANGED <<osVars, coreVars, monVars, dllVars, last, writes, fnVars, variant, cli>>

\* ===================================================== src/xclock/src/lib_new.rs
\* a start_monitoring that does not look at RUNNING
start_monitoring_nocheck(t) ==
    /\ ~fault /\ mon[t].pc = "idle"
    /\ mon' = SetPc(t, "sm_load")
    /\ UNCHANGED <<osVars, coreVars, RUNNING, HOOK_DLL, dllVars, obsVars, fnVars, variant, cli>>

\* start_monitoring, lines 73-77: the RUNNING check
start_monitoring(t) ==
    /\ ~fault /\ mon[t].pc = "idle"
    /\ IF RUNNING
       THEN /\ last' = Last("start_monitoring", "Err:already running")
            /\ UNCHANGED <<mon, fault, writes>>
       ELSE /\ mon' = SetPc(t, "sm_load")
            /\ UNCHANGED obsVars
    /\ UNCHANGED <<osVars, coreVars, RUNNING, HOOK_DLL, dllVars, fnVars, variant, cli>>

\* load_hook_dll, lines 21-34 (LoadLibraryW may fail)
load_hook_dll(t, oks) ==
    /\ ~fault /\ mon[t].pc = "sm_load"
    /\ IF HOOK_DLL # NULL
       THEN /\ mon' = SetPc(t, "sm_call")
            /\ UNCHANGED <<HOOK_DLL, dllRefs, obsVars>>
       ELSE \E ok \in oks :
              IF ok
              THEN /\ HOOK_DLL' = 1
                   /\ dllRefs' = dllRefs + 1
                   /\ mon' = SetPc(t, "sm_call")
                   /\ UNCHANGED obsVars
              ELSE /\ mon' = Return(t)
                   /\ last' = Last("start_monitoring", "Err:load")
                   /\ UNCHANGED <<HOOK_DLL, dllRefs, fault, writes>>
    /\ UNCHANGED <<now, bootTicks, osCbtHooks, osMouseHooks, classRegistered, shellWin,
                   tip, overlayWins, coreVars, RUNNING, dllVars, fnVars, variant, cli>>

\* call_dll_function("InstallHook"), lines 43-63, up to the call
call_InstallHook(t) ==
    /\ ~fault /\ mon[t].pc = "sm_call"
    /\ IF HOOK_DLL = NULL
       THEN /\ mon' = Return(t)
            /\ last' = Last("start_monitoring", "Err:DLL not loaded")
            /\ UNCHANGED <<fault, writes>>
       ELSE /\ mon' = SetPc(t, "ih_check")
            /\ UNCHANGED obsVars
    /\ UNCHANGED <<osVars, coreVars, RUNNING, HOOK_DLL, dllVars, fnVars, variant, cli>>

\* start_monitoring, lines 81-90: the result of InstallHook
start_monitoring_ret(t) ==
    /\ ~fault /\ mon[t].pc = "sm_ret"
    /\ mon' = Return(t)
    /\ IF mon[t].result = 0
       THEN /\ last' = Last("start_monitoring", "Err:install")
            /\ UNCHANGED RUNNING
       ELSE /\ RUNNING' = TRUE
            /\ last' = Last("start_monitoring", "Ok")
    /\ UNCHANGED <<osVars, coreVars, HOOK_DLL, dllVars, fault, writes, fnVars, variant, cli>>

\* a stop_monitoring that leaves RUNNING as it is
stop_monitoring_keepflag(t) ==
    /\ ~fault /\ mon[t].pc = "idle"
    /\ mon' = SetPc(t, "st_check")
    /\ UNCHANGED <<osVars, coreVars, RUNNING, HOOK_DLL, dllVars, obsVars, fnVars, variant, cli>>

\* stop_monitoring, line 94
stop_monitoring(t) ==
    /\ ~fault /\ mon[t].pc = "idle"
    /\ RUNNING' = FALSE
    /\ mon' = SetPc(t, "st_check")
    /\ UNCHANGED <<osVars, coreVars, HOOK_DLL, dllVars, obsVars, fnVars, variant, cli>>

\* stop_monitoring, lines 96-98: the HOOK_DLL check and the call
call_UninstallHook(t) ==
    /\ ~fault /\ mon[t].pc = "st_check"
    /\ IF HOOK_DLL = NULL
       THEN /\ mon' = Return(t)
            /\ last' = Last("stop_monitoring", "done")
            /\ UNCHANGED <<fault, writes>>
       ELSE /\ mon' = SetPc(t, "uh_check")
            /\ UNCHANGED obsVars
    /\ UNCHANGED <<osVars, coreVars, RUNNING, HOOK_DLL, dllVars, fnVars, variant, cli>>

\* unload_hook_dll, lines 36-41; the DLL's statics go with its last reference
unload_hook_dll(t) ==
    /\ ~fault /\ mon[t].pc = "st_unload"
    /\ mon' = Return(t)
    /\ last' = Last("stop_monitoring", "done")
    /\ IF HOOK_DLL # NULL
       THEN /\ HOOK_DLL' = NULL
            /\ dllRefs' = IF dllRefs > 0 THEN dllRefs - 1 ELSE 0
            /\ IF dllRefs <= 1
               THEN HOOK_INSTALLED' = FALSE /\ HOOK_HANDLE' = NULL
               ELSE UNCHANGED <<HOOK_INSTALLED, HOOK_HANDLE>>
       ELSE UNCHANGED <<HOOK_DLL, dllRefs, HOOK_INSTALLED, HOOK_HANDLE>>
    /\ UNCHANGED <<now, bootTicks, osCbtHooks, osMouseHooks, classRegistered, shellWin,
                   tip, overlayWins, coreVars, RUNNING, LAST_TOOLTIP_UPDATE,
                   HOOK_CALL_COUNT, workers, fault, writes, fnVars, variant, cli>>

\* is_running, lines 105-107
is_running == RUNNING

\* ================================================== src/xclock-hook/src/lib.rs
\* InstallHook, lines 247-250
InstallHook_check(t) ==
    /\ ~fault /\ mon[t].pc = "ih_check"
    /\ IF dllRefs = 0 THEN Crash
       ELSE /\ mon' = IF HOOK_INSTALLED
                      THEN [mon EXCEPT ![t].pc = "sm_ret", ![t].result = 1]
                      ELSE SetPc(t, "ih_set")
            /\ UNCHANGED <<osVars, coreVars, RUNNING, HOOK_DLL, dllVars, obsVars, fnVars, variant, cli>>

\* InstallHook, lines 253-258 and 265-268 (SetWindowsHookExW may fail)
InstallHook_set(t, oks) ==
    /\ ~fault /\ mon[t].pc = "ih_set"
    /\ IF dllRefs = 0 THEN Crash
       ELSE \E ok \in oks :
              LET h == IF ok THEN NewHook(osCbtHooks) ELSE NULL IN
              /\ IF h # NULL
                 THEN /\ osCbtHooks' = osCbtHooks \cup {h}
                      /\ mon' = [mon EXCEPT ![t].pc = "ih_store_handle", ![t].hook = h]
                 ELSE /\ UNCHANGED osCbtHooks
                      /\ mon' = [mon EXCEPT ![t].pc = "sm_ret", ![t].result = 0]
              /\ UNCHANGED <<now, bootTicks, osMouseHooks, dllRefs, classRegistered,
                             shellWin, tip, overlayWins, coreVars, RUNNING, HOOK_DLL,
                             dllVars, obsVars, fnVars, variant, cli>>

\* InstallHook, line 261
InstallHook_store_handle(t) ==
    /\ ~fault /\ mon[t].pc = "ih_store_handle"
    /\ IF dllRefs = 0 THEN Crash
       ELSE /\ HOOK_HANDLE' = mon[t].hook
            /\ mon' = SetPc(t, "ih_store_flag")
            /\ UNCHANGED <<osVars, coreVars, RUNNING, HOOK_DLL, HOOK_INSTALLED,
                           LAST_TOOLTIP_UPDATE, HOOK_CALL_COUNT, workers, obsVars, fnVars, variant, cli>>

\* InstallHook, lines 262-264
InstallHook_store_flag(t) ==
    /\ ~fault /\ mon[t].pc = "ih_store_flag"
    /\ IF dllRefs = 0 THEN Crash
       ELSE /\ HOOK_INSTALLED' = TRUE
            /\ mon' = [mon EXCEPT ![t].pc = "sm_ret", ![t].result = 1]
            /\ UNCHANGED <<osVars, coreVars, RUNNING, HOOK_DLL, HOOK_HANDLE,
                           LAST_TOOLTIP_UPDATE, HOOK_CALL_COUNT, workers, obsVars, fnVars, variant, cli>>

\* UninstallHook, lines 276-279
UninstallHook_check(t) ==
    /\ ~fault /\ mon[t].pc = "uh_check"
    /\ IF dllRefs = 0 THEN Crash
       ELSE /\ mon' = IF ~HOOK_INSTALLED THEN SetPc(t, "st_unload") ELSE SetPc(t, "uh_load")
            /\ UNCHANGED <<osVars, coreVars, RUNNING, HOOK_DLL, dllVars, obsVars, fnVars, variant, cli>>

\* UninstallHook, lines 281-282
UninstallHook_load(t) ==
    /\ ~fault /\ mon[t].pc = "uh_load"
    /\ IF dllRefs = 0 THEN Crash
       ELSE /\ mon' = [mon EXCEPT ![t].hook = HOOK_HANDLE,
                                  ![t].pc = IF HOOK_HANDLE # NULL THEN "uh_unhook"
                                            ELSE "uh_clear_flag"]
            /\ UNCHANGED <<osVars, coreVars, RUNNING, HOOK_DLL, dllVars, obsVars, fnVars, variant, cli>>

\* UninstallHook, lines 284 and 289-292 (UnhookWindowsHookEx may fail)
UninstallHook_unhook(t, oks) ==
    /\ ~fault /\ mon[t].pc = "uh_unhook"
    /\ IF dllRefs = 0 THEN Crash
       ELSE \E ok \in oks :
              /\ IF ok /\ mon[t].hook \in osCbtHooks
                 THEN /\ osCbtHooks' = osCbtHooks \ {mon[t].hook}
                      /\ mon' = SetPc(t, "uh_store_handle")
                 ELSE /\ UNCHANGED osCbtHooks
                      /\ mon' = SetPc(t, "st_unload")
              /\ UNCHANGED <<now, bootTicks, osMouseHooks, dllRefs, classRegistered,
                             shellWin, tip, overlayWins, coreVars, RUNNING, HOOK_DLL,
                             dllVars, obsVars, fnVars, variant, cli>>

\* UninstallHook, line 285
UninstallHook_store_handle(t) ==
    /\ ~fault /\ mon[t].pc = "uh_store_handle"
    /\ IF dllRefs = 0 THEN Crash
       ELSE /\ HOOK_HANDLE' = NULL
            /\ mon' = SetPc(t, "uh_clear_flag")
            /\ UNCHANGED <<osVars, coreVars, RUNNING, HOOK_DLL, HOOK_INSTALLED,
                           LAST_TOOLTIP_UPDATE, HOOK_CALL_COUNT, workers, obsVars, fnVars, variant, cli>>

\* UninstallHook, lines 286-288 and 295-297
UninstallHook_clear_flag(t) ==
    /\ ~fault /\ mon[t].pc = "uh_clear_flag"
    /\ IF dllRefs = 0 THEN Crash
       ELSE /\ HOOK_INSTALLED' = FALSE
            /\ mon' = SetPc(t, "st_unload")
            /\ UNCHANGED <<osVars, coreVars, RUNNING, HOOK_DLL, HOOK_HANDLE,
                           LAST_TOOLTIP_UPDATE, HOOK_CALL_COUNT, workers, obsVars, fnVars, variant, cli>>

\* the steps of one application thread through lib_new.rs and the DLL's exports
MonStep(t, oks) ==
    \/ start_monitoring(t)
    \/ load_hook_dll(t, oks)
    \/ call_InstallHook(t)
    \/ InstallHook_check(t)
    \/ InstallHook_set(t, oks)
    \/ InstallHook_store_handle(t)
    \/ InstallHook_store_flag(t)
    \/ start_monitoring_ret(t)
    \/ stop_monitoring(t)
    \/ call_UninstallHook(t)
    \/ UninstallHook_check(t)
    \/ UninstallHook_load(t)
    \/ UninstallHook_unhook(t, oks)
    \/ UninstallHook_store_handle(t)
    \/ UninstallHook_clear_flag(t)
    \/ unload_hook_dll(t)


\* -------------------------------------- xclock-cli: the command "xclock start"
\* main, lines 27-66, between its calls of the library: the command is read
\* and the Ctrl+C handler set (27-46), the result of start_monitoring decides
\* (49-54, 69-72), the loop condition is tested (56), the process ends after
\* stop_monitoring (66-67)
main_thread ==
    /\ ~fault /\ mon[1].pc = "idle"
    /\ \/ /\ cli.pc = "off" /\ last.op = "none"
          /\ cli' = [cli EXCEPT !.pc = "start"]
       \/ /\ cli.pc = "start" /\ last.op = "start_monitoring"
          /\ cli' = [cli EXCEPT !.pc = IF last.res = "Ok" THEN "loop" ELSE "exit"]
       \/ /\ cli.pc = "loop"
          /\ cli' = [cli EXCEPT !.pc = IF cli.running /\ is_running
                                        THEN "ml_check" ELSE "stop"]
       \/ /\ cli.pc = "stop" /\ last.op = "stop_monitoring"
          /\ cli' = [cli EXCEPT !.pc = "exit"]
    /\ UNCHANGED <<osVars, coreVars, monVars, dllVars, obsVars, fnVars, variant>>

\* main, lines 49 and 66: the two calls of the library, step by step
main_call(oks) ==
    /\ cli.pc \in {"start", "stop"}
    /\ MonStep(1, oks)
    /\ mon[1].pc = "idle" =>
          \/ cli.pc = "start" /\ last.op = "none" /\ mon'[1].pc = "sm_load"
          \/ cli.pc = "stop" /\ last.op # "stop_monitoring" /\ mon'[1].pc = "st_check"

\* message_loop, lib_new.rs lines 109-126, as main calls it (lines 57-62): the
\* test of RUNNING (112); GetMessageW (113), which returns when the queue holds
\* a message: -1 is Err and main tests its loop condition again, 0 is WM_QUIT
\* and ends the loop, any other message is dispatched
message_loop(oks) ==
    /\ ~fault
    /\ \/ /\ cli.pc = "ml_check"
          /\ cli' = [cli EXCEPT !.pc = IF is_running THEN "ml_wait" ELSE "stop"]
       \/ /\ cli.pc = "ml_wait" /\ cli.queue # <<>>
          /\ \E ok \in oks :
               cli' = IF ~ok THEN [cli EXCEPT !.pc = "loop"]
                      ELSE [cli EXCEPT !.queue = Tail(@),
                                       !.pc = IF Head(cli.queue) = "WM_QUIT"
                                              THEN "stop" ELSE "ml_check"]
    /\ UNCHANGED <<osVars, coreVars, monVars, dllVars, obsVars, fnVars, variant>>

\* the Ctrl+C handler, main.rs lines 43-46, on its own thread
ctrlc_handler ==
    /\ cli.pc \notin {"off", "exit"}
    /\ cli.running
    /\ cli' = [cli EXCEPT !.running = FALSE]
    /\ UNCHANGED <<osVars, coreVars, monVars, dllVars, obsVars, fnVars, variant>>

\* a message is posted to the queue of the main thread
PostMessage(kinds) ==
    /\ cli.pc \notin {"off", "exit"}
    /\ Len(cli.queue) < MaxMessages
    /\ \E k \in kinds : cli' = [cli EXCEPT !.queue = Append(@, k)]
    /\ UNCHANGED <<osVars, coreVars, monVars, dllVars, obsVars, fnVars, variant>>

\* ------------------------------------------------ the hook DLL: the mutator
TipClasses == {TOOLTIPS_CLASS, S_Button}
TipTops == {ScreenHeight - TASKBAR_BAND, ScreenHeight - TASKBAR_BAND + 1}
TipTexts == {S_TimeText, S_PlainText}
HookCodes == {-1, HCBT_CREATEWND, HCBT_CREATEWND + 2}
ChainResults == {0, 1}
MutatorPcs == {"m_check", "m_class", "m_area", "m_gettext", "m_settext", "m_mark",
               "m_store"}

\* get_window_class_name, lines 54-67: "" when GetClassNameW fails
hook_get_window_class_name(hwnd) == IF tip[hwnd].exists THEN tip[hwnd].cls ELSE S_Empty

\* get_window_text, lines 69-80: "" when GetWindowTextW returns 0
get_window_text(hwnd) == IF tip[hwnd].exists THEN tip[hwnd].text ELSE S_Empty

\* is_tooltip_in_taskbar_area, lines 82-100
is_tooltip_in_taskbar_area(hwnd) ==
    IF tip[hwnd].exists THEN tip[hwnd].top > ScreenHeight - TASKBAR_BAND ELSE FALSE

\* a should_update_tooltip whose cooldown includes its last millisecond
should_update_tooltip_inclusive ==
    ~(LAST_TOOLTIP_UPDATE # None /\ now - LAST_TOOLTIP_UPDATE <= TOOLTIP_UPDATE_COOLDOWN)

\* should_update_tooltip, lines 102-109
should_update_tooltip ==
    ~(LAST_TOOLTIP_UPDATE # None /\ now - LAST_TOOLTIP_UPDATE < TOOLTIP_UPDATE_COOLDOWN)

\* Times since boot are records [s, ms] of whole seconds and milliseconds
\* below 1000: 2^32 ms is U32_S seconds and U32_MS milliseconds.
AddMs(e, d) == [s |-> e.s + (e.ms + d) \div 1000, ms |-> (e.ms + d) % 1000]
SubMs(e, d) == IF e.s = 0 /\ e.ms < d THEN [s |-> 0, ms |-> 0]
               ELSE IF e.ms >= d THEN [s |-> e.s, ms |-> e.ms - d]
               ELSE [s |-> e.s - 1, ms |-> e.ms + 1000 - d]
RECURSIVE Wrap32(_)
Wrap32(e) == IF e.s < U32_S \/ (e.s = U32_S /\ e.ms < U32_MS) THEN e
             ELSE Wrap32(IF e.ms >= U32_MS
                         THEN [s |-> e.s - U32_S, ms |-> e.ms - U32_MS]
                         ELSE [s |-> e.s - U32_S - 1, ms |-> e.ms + 1000 - U32_MS])

\* GetTickCount: milliseconds since boot in 32 bits
GetTickCount == Wrap32(AddMs(bootTicks, now))

\* an uptime text without the form for hours
format_uptime_no_hours(days, hours, minutes) ==
    IF days > 0
    THEN DecStr(days) \o <<"d", " ">> \o DecStr(hours) \o <<"h", " ">> \o DecStr(minutes) \o <<"m">>
    ELSE DecStr(minutes) \o <<"m">>

\* the uptime text of both variants, lines 123-129 (hook DLL) and 77-83 (lib.rs)
format_uptime(days, hours, minutes) ==
    IF days > 0
    THEN DecStr(days) \o <<"d", " ">> \o DecStr(hours) \o <<"h", " ">> \o DecStr(minutes) \o <<"m">>
    ELSE IF hours > 0
         THEN DecStr(hours) \o <<"h", " ">> \o DecStr(minutes) \o <<"m">>
         ELSE DecStr(minutes) \o <<"m">>

\* get_uptime, lines 115-131, of a tick count
get_uptime(tick_count) ==
    LET uptime_seconds == tick_count.s
        days == uptime_seconds \div (24 * 3600)
        hours == (uptime_seconds % (24 * 3600)) \div 3600
        minutes == (uptime_seconds % 3600) \div 60
    IN format_uptime(days, hours, minutes)

\* get_norwegian_week, lines 133-138
get_norwegian_week == S_Uke \o DecStr(EnvWeek)

\* a test of the text that takes every letter A, P or M for a marker
looks_like_time_letters(text) ==
    /\ text # S_Empty
    /\ \/ Contains(text, <<":">>)
       \/ Contains(text, <<"A">>)
       \/ Contains(text, <<"P">>)
       \/ Contains(text, <<"M">>)
       \/ Contains(text, <<"/">>)
       \/ \E i \in 1..Len(text) : \E d \in 0..9 : text[i] = Digit(d)

\* has_time_markers and the emptiness test, lines 164-170
looks_like_time(text) ==
    /\ text # S_Empty
    /\ \/ Contains(text, <<":">>)
       \/ Contains(text, <<"A", "M">>)
       \/ Contains(text, <<"P", "M">>)
       \/ Contains(text, <<"/">>)
       \/ \E i \in 1..Len(text) : \E d \in 0..9 : text[i] = Digit(d)

\* the composed text, lines 176-178
new_tooltip_text(current_text) ==
    current_text \o S_Opptid \o get_uptime(GetTickCount) \o <<"\n">> \o get_norwegian_week

FreeSlot == CHOOSE i \in WorkerIds : workers[i].pc = "free"
            /\ \A j \in WorkerIds : workers[j].pc = "free" => i <= j

\* cbt_hook_proc, lines 198-240, forgetting the chain when it schedules a worker
cbt_hook_proc_swallow(code, hwnd, chain) ==
    /\ workers' = IF code = HCBT_CREATEWND /\ hook_get_window_class_name(hwnd)' = TOOLTIPS_CLASS
                  THEN [workers EXCEPT ![FreeSlot] =
                          [pc |-> "sleep", hwnd |-> hwnd, wake |-> now + SETTLE_DELAY,
                           text |-> S_Empty, stamp |-> 0,
                           origin |-> hook_get_window_class_name(hwnd)']]
                  ELSE workers
    /\ HOOK_CALL_COUNT' = IF code # HCBT_CREATEWND /\ code >= 0
                          THEN HOOK_CALL_COUNT + 1 ELSE HOOK_CALL_COUNT
    /\ last' = IF code = HCBT_CREATEWND /\ hook_get_window_class_name(hwnd)' = TOOLTIPS_CLASS
               THEN [op |-> "cbt_hook_proc", res |-> "scheduled", fwd |-> 0, ret |-> 0,
                     chain |-> chain]
               ELSE [op |-> "cbt_hook_proc", res |-> "passed", fwd |-> 1, ret |-> chain,
                     chain |-> chain]

\* cbt_hook_proc, lines 198-240, scheduling a worker for every created window
cbt_hook_proc_anyclass(code, hwnd, chain) ==
    /\ workers' = IF code = HCBT_CREATEWND
                  THEN [workers EXCEPT ![FreeSlot] =
                          [pc |-> "sleep", hwnd |-> hwnd, wake |-> now + SETTLE_DELAY,
                           text |-> S_Empty, stamp |-> 0,
                           origin |-> hook_get_window_class_name(hwnd)']]
                  ELSE workers
    /\ HOOK_CALL_COUNT' = IF code # HCBT_CREATEWND /\ code >= 0
                          THEN HOOK_CALL_COUNT + 1 ELSE HOOK_CALL_COUNT
    /\ last' = [op |-> "cbt_hook_proc",
                res |-> IF code = HCBT_CREATEWND THEN "scheduled" ELSE "passed",
                fwd |-> 1, ret |-> chain, chain |-> chain]

\* cbt_hook_proc, lines 198-240: the callback of the WH_CBT hook. hwnd is the
\* window of a creation event, chain the value CallNextHookEx returns.
cbt_hook_proc(code, hwnd, chain) ==
    /\ workers' = IF code = HCBT_CREATEWND /\ hook_get_window_class_name(hwnd)' = TOOLTIPS_CLASS
                  THEN [workers EXCEPT ![FreeSlot] =
                          [pc |-> "sleep", hwnd |-> hwnd, wake |-> now + SETTLE_DELAY,
                           text |-> S_Empty, stamp |-> 0,
                           origin |-> hook_get_window_class_name(hwnd)']]
                  ELSE workers
    /\ HOOK_CALL_COUNT' = IF code # HCBT_CREATEWND /\ code >= 0
                          THEN HOOK_CALL_COUNT + 1 ELSE HOOK_CALL_COUNT
    /\ last' = [op |-> "cbt_hook_proc",
                res |-> IF code = HCBT_CREATEWND /\ hook_get_window_class_name(hwnd)' = TOOLTIPS_CLASS
                        THEN "scheduled" ELSE "passed",
                fwd |-> 1, ret |-> chain, chain |-> chain]

\* a window is created on the desktop and the installed hook sees HCBT_CREATEWND
CbtCreateWnd(classes, tops, chains) ==
    \E hwnd \in TipHwnds, cls \in classes, top \in tops, chain \in chains :
        /\ ~fault /\ osCbtHooks # {}
        /\ ~tip[hwnd].exists
        /\ \E i \in WorkerIds : workers[i].pc = "free"
        /\ tip' = [tip EXCEPT ![hwnd] = [exists |-> TRUE, cls |-> cls, text |-> S_Empty,
                                         top |-> top]]
        /\ cbt_hook_proc(HCBT_CREATEWND, hwnd, chain)
        /\ UNCHANGED <<now, bootTicks, osCbtHooks, osMouseHooks, dllRefs, classRegistered,
                       shellWin, overlayWins, coreVars, monVars, HOOK_INSTALLED,
                       HOOK_HANDLE, LAST_TOOLTIP_UPDATE, fault, writes, fnVars, variant, cli>>

\* the installed hook sees another event
CbtOther(chains) ==
    \E code \in HookCodes \ {HCBT_CREATEWND}, chain \in chains :
        /\ ~fault /\ osCbtHooks # {}
        /\ code >= 0 => HOOK_CALL_COUNT < MaxHookCalls
        /\ cbt_hook_proc(code, NULL, chain)
        /\ UNCHANGED <<osVars, coreVars, monVars, HOOK_INSTALLED, HOOK_HANDLE,
                       LAST_TOOLTIP_UPDATE, fault, writes, fnVars, variant, cli>>

SetWorker(i, pc) == [workers EXCEPT ![i].pc = pc]
Exit(i) == [workers EXCEPT ![i] = FreeWorker]

\* a deferred worker that calls the mutator without IsWindow
worker_wake_unchecked(i) ==
    /\ ~fault /\ workers[i].pc = "sleep"
    /\ now >= workers[i].wake
    /\ workers' = SetWorker(i, "m_check")
    /\ UNCHANGED <<osVars, coreVars, monVars, HOOK_INSTALLED, HOOK_HANDLE,
                   LAST_TOOLTIP_UPDATE, HOOK_CALL_COUNT, obsVars, fnVars, variant, cli>>

\* the deferred worker, lines 215-228: the sleep is over, IsWindow
worker_wake(i) ==
    /\ ~fault /\ workers[i].pc = "sleep"
    /\ now >= workers[i].wake
    /\ workers' = IF tip[workers[i].hwnd].exists THEN SetWorker(i, "m_check") ELSE Exit(i)
    /\ UNCHANGED <<osVars, coreVars, monVars, HOOK_INSTALLED, HOOK_HANDLE,
                   LAST_TOOLTIP_UPDATE, HOOK_CALL_COUNT, obsVars, fnVars, variant, cli>>

\* modify_tooltip_text, lines 143-146
modify_check(i) ==
    /\ ~fault /\ workers[i].pc = "m_check"
    /\ workers' = IF should_update_tooltip THEN SetWorker(i, "m_class") ELSE Exit(i)
    /\ UNCHANGED <<osVars, coreVars, monVars, HOOK_INSTALLED, HOOK_HANDLE,
                   LAST_TOOLTIP_UPDATE, HOOK_CALL_COUNT, obsVars, fnVars, variant, cli>>

\* modify_tooltip_text, lines 148-153
modify_class(i) ==
    /\ ~fault /\ workers[i].pc = "m_class"
    /\ workers' = IF hook_get_window_class_name(workers[i].hwnd) # TOOLTIPS_CLASS
                  THEN Exit(i) ELSE SetWorker(i, "m_area")
    /\ UNCHANGED <<osVars, coreVars, monVars, HOOK_INSTALLED, HOOK_HANDLE,
                   LAST_TOOLTIP_UPDATE, HOOK_CALL_COUNT, obsVars, fnVars, variant, cli>>

\* modify_tooltip_text, lines 155-159
modify_area(i) ==
    /\ ~fault /\ workers[i].pc = "m_area"
    /\ workers' = IF ~is_tooltip_in_taskbar_area(workers[i].hwnd)
                  THEN Exit(i) ELSE SetWorker(i, "m_gettext")
    /\ UNCHANGED <<osVars, coreVars, monVars, HOOK_INSTALLED, HOOK_HANDLE,
                   LAST_TOOLTIP_UPDATE, HOOK_CALL_COUNT, obsVars, fnVars, variant, cli>>

\* modify_tooltip_text, lines 161-174
modify_gettext(i) ==
    /\ ~fault /\ workers[i].pc = "m_gettext"
    /\ LET current_text == get_window_text(workers[i].hwnd) IN
       workers' = IF ~looks_like_time(current_text)
                  THEN Exit(i)
                  ELSE [workers EXCEPT ![i].pc = "m_settext", ![i].text = current_text]
    /\ UNCHANGED <<osVars, coreVars, monVars, HOOK_INSTALLED, HOOK_HANDLE,
                   LAST_TOOLTIP_UPDATE, HOOK_CALL_COUNT, obsVars, fnVars, variant, cli>>

\* modify_tooltip_text, lines 176-185 and 192-194: SetWindowTextW
modify_settext(i) ==
    /\ ~fault /\ workers[i].pc = "m_settext"
    /\ LET hwnd == workers[i].hwnd IN
       IF tip[hwnd].exists
       THEN /\ tip' = [tip EXCEPT ![hwnd].text = new_tooltip_text(workers[i].text)]
            /\ writes' = Append(writes, [hwnd |-> hwnd, at |-> now, by |-> i])
            /\ workers' = SetWorker(i, "m_mark")
       ELSE /\ workers' = Exit(i)
            /\ UNCHANGED <<tip, writes>>
    /\ UNCHANGED <<now, bootTicks, osCbtHooks, osMouseHooks, dllRefs, classRegistered,
                   shellWin, overlayWins, coreVars, monVars, HOOK_INSTALLED, HOOK_HANDLE,
                   LAST_TOOLTIP_UPDATE, HOOK_CALL_COUNT, last, fault, fnVars, variant, cli>>

\* modify_tooltip_text, line 186, and mark_tooltip_updated, line 112: the
\* value of Instant::now()
modify_mark(i) ==
    /\ ~fault /\ workers[i].pc = "m_mark"
    /\ workers' = [workers EXCEPT ![i].pc = "m_store", ![i].stamp = now]
    /\ UNCHANGED <<osVars, coreVars, monVars, HOOK_INSTALLED, HOOK_HANDLE,
                   LAST_TOOLTIP_UPDATE, HOOK_CALL_COUNT, obsVars, fnVars, variant, cli>>

\* mark_tooltip_updated, line 112: the store into the static; then the redraw,
\* lines 188-191
mark_tooltip_updated(i) ==
    /\ ~fault /\ workers[i].pc = "m_store"
    /\ LAST_TOOLTIP_UPDATE' = workers[i].stamp
    /\ workers' = Exit(i)
    /\ UNCHANGED <<osVars, coreVars, monVars, HOOK_INSTALLED, HOOK_HANDLE,
                   HOOK_CALL_COUNT, obsVars, fnVars, variant, cli>>

WorkerStep(i) ==
    \/ worker_wake(i)
    \/ modify_check(i)
    \/ modify_class(i)
    \/ modify_area(i)
    \/ modify_gettext(i)
    \/ modify_settext(i)
    \/ modify_mark(i)
    \/ mark_tooltip_updated(i)

\* ------------------------------------------------------------ the desktop
\* the owner of a window fills in its text
TipPopulate(texts) ==
    \E hwnd \in TipHwnds, text \in texts :
        /\ tip[hwnd].exists /\ tip[hwnd].text = S_Empty
        /\ tip' = [tip EXCEPT ![hwnd].text = text]
        /\ UNCHANGED <<now, bootTicks, osCbtHooks, osMouseHooks, dllRefs, classRegistered,
                       shellWin, overlayWins, coreVars, monVars, dllVars, obsVars, fnVars, variant, cli>>

\* a window is destroyed
TipDestroy ==
    \E hwnd \in TipHwnds :
        /\ tip[hwnd].exists
        /\ tip' = [tip EXCEPT ![hwnd] = NoTip]
        /\ UNCHANGED <<now, bootTicks, osCbtHooks, osMouseHooks, dllRefs, classRegistered,
                       shellWin, overlayWins, coreVars, monVars, dllVars, obsVars, fnVars, variant, cli>>

\* time passes
Tick ==
    /\ now + TimeStep <= MaxTime
    /\ now' = now + TimeStep
    /\ UNCHANGED <<bootTicks, osCbtHooks, osMouseHooks, dllRefs, classRegistered,
                   shellWin, tip, overlayWins, coreVars, monVars, dllVars, obsVars, fnVars, variant, cli>>


\* ========================================================= src/xclock/src/lib.rs
\* The shell's windows. Handle h has the class ShellClass[h] when the shell
\* created it; its parent is ShellParent[h] (0: a top-level window).
ShellClass == <<S_Shell_TrayWnd, S_TrayNotifyWnd, S_TrayClockWClass, S_ClockWClass,
                S_DigitalClockWClass>>
ShellParent == <<0, 1, 2, 2, 2>>
ShellRect == << <<0, 1040, 1920, 1080>>, <<0, 0, 300, 40>>, <<100, 100, 200, 130>>,
                <<400, 100, 500, 130>>, <<600, 100, 700, 130>> >>
ShellHwnds == 1..Len(ShellClass)
ShellConfigs == {{}, {1}, {1, 2}, {1, 2, 3}, {1, 2, 3, 5}}
ShellOf(cfg) == [h \in ShellHwnds |->
                    IF h \in cfg
                    THEN [exists |-> TRUE, cls |-> ShellClass[h], rect |-> ShellRect[h]]
                    ELSE NoShellWin]
MousePoints == {<<150, 115>>, <<250, 20>>, <<500, 500>>}
MouseMessages == {"WM_MOUSEMOVE", "WM_LBUTTONDOWN", "WM_RBUTTONDOWN", "WM_MBUTTONDOWN",
                  "WM_LBUTTONUP"}
MouseCodes == {-1, 0}
OverlayIds == 1..MaxHooks
Unset == [set |-> FALSE, list |-> <<>>]
IdleHook == [pc |-> "idle", x |-> 0, y |-> 0, wake |-> 0, chain |-> 0]

\* get_window_class_name, lines 45-53: "Unknown" when GetClassNameW fails
core_get_window_class_name(hwnd) ==
    IF shellWin[hwnd].exists THEN shellWin[hwnd].cls ELSE S_Unknown

\* FindWindowW / FindWindowExW: the first window of a class under a parent
FindWindowEx(parent, cls) ==
    LET found == {h \in ShellHwnds : /\ shellWin[h].exists
                                     /\ shellWin[h].cls = cls
                                     /\ ShellParent[h] = parent}
    IN IF found = {} THEN NULL ELSE CHOOSE h \in found : \A g \in found : h <= g

\* find_all_clock_windows, lines 94-142
find_all_clock_windows ==
    LET taskbar == FindWindowEx(0, S_Shell_TrayWnd)
        notification_area == IF taskbar = NULL THEN NULL
                             ELSE FindWindowEx(taskbar, S_TrayNotifyWnd)
        clock_classes == <<S_TrayClockWClass, S_ClockWClass, S_DigitalClockWClass>>
        clocks == [i \in 1..3 |-> IF notification_area = NULL THEN NULL
                                  ELSE FindWindowEx(notification_area, clock_classes[i])]
        candidates == SelectSeq(clocks, LAMBDA h : h # NULL)
    IN IF notification_area = NULL THEN <<>>
       ELSE IF candidates = <<>> THEN <<notification_area>> ELSE candidates

\* is_point_in_any_clock, lines 157-173: the rule of one target, right edge left out
clock_rule_open_right(class_name, rect, x, y) ==
    IF Contains(class_name, S_Clock) \/ Contains(class_name, S_Time)
    THEN x >= rect[1] /\ x < rect[3] /\ y >= rect[2] /\ y <= rect[4]
    ELSE IF class_name = S_TrayNotifyWnd
         THEN LET width == rect[3] - rect[1]
                  clock_area_left == rect[1] + TruncDiv(width * 2, 3)
              IN x >= clock_area_left /\ x <= rect[3] /\ y >= rect[2] /\ y <= rect[4]
         ELSE FALSE

\* is_point_in_any_clock, lines 157-173: the rule of one target, the left two thirds
clock_rule_third(class_name, rect, x, y) ==
    IF Contains(class_name, S_Clock) \/ Contains(class_name, S_Time)
    THEN x >= rect[1] /\ x <= rect[3] /\ y >= rect[2] /\ y <= rect[4]
    ELSE IF class_name = S_TrayNotifyWnd
         THEN LET width == rect[3] - rect[1]
                  clock_area_left == rect[1] + TruncDiv(width, 3)
              IN x >= clock_area_left /\ x <= rect[3] /\ y >= rect[2] /\ y <= rect[4]
         ELSE FALSE

\* is_point_in_any_clock, lines 157-173: the rule of one target
\* rect is <<left, top, right, bottom>>
clock_rule(class_name, rect, x, y) ==
    IF Contains(class_name, S_Clock) \/ Contains(class_name, S_Time)
    THEN x >= rect[1] /\ x <= rect[3] /\ y >= rect[2] /\ y <= rect[4]
    ELSE IF class_name = S_TrayNotifyWnd
         THEN LET width == rect[3] - rect[1]
                  clock_area_left == rect[1] + TruncDiv(width * 2, 3)
              IN x >= clock_area_left /\ x <= rect[3] /\ y >= rect[2] /\ y <= rect[4]
         ELSE FALSE

\* is_point_in_any_clock, lines 145-180
is_point_in_any_clock(x, y) ==
    /\ CLOCK_WINDOWS.set
    /\ \E i \in 1..Len(CLOCK_WINDOWS.list) :
          LET clock_hwnd == CLOCK_WINDOWS.list[i] IN
          /\ clock_hwnd # NULL
          /\ shellWin[clock_hwnd].exists
          /\ clock_rule(core_get_window_class_name(clock_hwnd),
                        shellWin[clock_hwnd].rect, x, y)

\* generate_tooltip_text, lines 56-91: skew is the time between its two
\* SystemTime::now() calls
generate_uptime_text(tick_count, skew) ==
    LET uptime == SubMs(tick_count, skew)
        uptime_secs == uptime.s
        days == uptime_secs \div 86400
        hours == (uptime_secs % 86400) \div 3600
        minutes == (uptime_secs % 3600) \div 60
    IN format_uptime(days, hours, minutes)

generate_tooltip_text(tick_count, skew) ==
    S_UptimeLabel \o generate_uptime_text(tick_count, skew) \o S_WeekLabel
        \o DecStr(EnvWeek) \o <<",", " ">> \o DecStr(EnvYear) \o S_NoSuffix

\* a hide_tooltip that destroys the window and leaves the visible flag set
hide_tooltip_keep_flag ==
    IF TOOLTIP_WINDOW # NULL
    THEN /\ overlayWins' = overlayWins \ {TOOLTIP_WINDOW}
         /\ TOOLTIP_WINDOW' = NULL
         /\ UNCHANGED TOOLTIP_VISIBLE
    ELSE UNCHANGED <<overlayWins, TOOLTIP_WINDOW, TOOLTIP_VISIBLE>>

\* hide_tooltip, lines 274-281: the state it leaves
hide_tooltip ==
    IF TOOLTIP_WINDOW # NULL
    THEN /\ overlayWins' = overlayWins \ {TOOLTIP_WINDOW}
         /\ TOOLTIP_WINDOW' = NULL
         /\ TOOLTIP_VISIBLE' = FALSE
    ELSE UNCHANGED <<overlayWins, TOOLTIP_WINDOW, TOOLTIP_VISIBLE>>

\* a show_tooltip that sets the visible flag whether or not the window exists
show_tooltip_flag_always(ok) ==
    IF TOOLTIP_VISIBLE \/ TOOLTIP_WINDOW # NULL
    THEN UNCHANGED <<overlayWins, TOOLTIP_WINDOW, TOOLTIP_VISIBLE>>
    ELSE LET tooltip == IF ok /\ classRegistered THEN NewHook(overlayWins) ELSE NULL IN
         /\ overlayWins' = overlayWins \cup ({tooltip} \ {NULL})
         /\ TOOLTIP_WINDOW' = tooltip
         /\ TOOLTIP_VISIBLE' = TRUE

\* show_tooltip, lines 207-271 (CreateWindowExW may fail, and fails for a
\* class that is not registered)
show_tooltip(ok) ==
    IF TOOLTIP_VISIBLE \/ TOOLTIP_WINDOW # NULL
    THEN UNCHANGED <<overlayWins, TOOLTIP_WINDOW, TOOLTIP_VISIBLE>>
    ELSE LET tooltip == IF ok /\ classRegistered THEN NewHook(overlayWins) ELSE NULL IN
         IF tooltip # NULL
         THEN /\ overlayWins' = overlayWins \cup {tooltip}
              /\ TOOLTIP_WINDOW' = tooltip
              /\ TOOLTIP_VISIBLE' = TRUE
         ELSE UNCHANGED <<overlayWins, TOOLTIP_WINDOW, TOOLTIP_VISIBLE>>

Forwarded(res, chain) ==
    [op |-> "mouse_hook_proc", res |-> res, fwd |-> 1, ret |-> chain, chain |-> chain]

\* mouse_hook_proc, lines 284-330, up to its sleep or to its return
mouse_hook_proc(code, wparam, p, chain) ==
    /\ ~fault /\ osMouseHooks # {} /\ mh.pc = "idle"
    /\ IF code >= 0 /\ wparam = "WM_MOUSEMOVE"
       THEN IF is_point_in_any_clock(p[1], p[2])
            THEN IF ~TOOLTIP_VISIBLE
                 THEN /\ mh' = [pc |-> "debounce", x |-> p[1], y |-> p[2],
                                wake |-> now + DEBOUNCE_DELAY, chain |-> chain]
                      /\ UNCHANGED <<overlayWins, TOOLTIP_WINDOW, TOOLTIP_VISIBLE, last>>
                 ELSE /\ last' = Forwarded("inside", chain)
                      /\ UNCHANGED <<overlayWins, TOOLTIP_WINDOW, TOOLTIP_VISIBLE, mh>>
            ELSE /\ hide_tooltip
                 /\ last' = Forwarded("outside", chain)
                 /\ UNCHANGED mh
       ELSE IF code >= 0 /\ wparam \in {"WM_LBUTTONDOWN", "WM_RBUTTONDOWN", "WM_MBUTTONDOWN"}
            THEN /\ hide_tooltip
                 /\ last' = Forwarded("button", chain)
                 /\ UNCHANGED mh
            ELSE /\ last' = Forwarded("ignored", chain)
                 /\ UNCHANGED <<overlayWins, TOOLTIP_WINDOW, TOOLTIP_VISIBLE, mh>>
    /\ UNCHANGED <<now, bootTicks, osCbtHooks, osMouseHooks, dllRefs, classRegistered,
                   shellWin, tip, core_HOOK_HANDLE, CLOCK_WINDOWS, core_RUNNING, monVars,
                   dllVars, fault, writes, fnVars, variant, cli>>

\* mouse_hook_proc, lines 308-314 and 328-329: after the sleep
mouse_hook_proc_resume(oks) ==
    /\ ~fault /\ mh.pc = "debounce" /\ now >= mh.wake
    /\ \E ok \in oks :
          IF is_point_in_any_clock(mh.x, mh.y)
          THEN show_tooltip(ok)
          ELSE UNCHANGED <<overlayWins, TOOLTIP_WINDOW, TOOLTIP_VISIBLE>>
    /\ mh' = IdleHook
    /\ last' = Forwarded("debounced", mh.chain)
    /\ UNCHANGED <<now, bootTicks, osCbtHooks, osMouseHooks, dllRefs, classRegistered,
                   shellWin, tip, core_HOOK_HANDLE, CLOCK_WINDOWS, core_RUNNING, monVars,
                   dllVars, fault, writes, fnVars, variant, cli>>

\* the installed mouse hook sees an event
MouseEvent(points, chains) ==
    \E code \in MouseCodes, wparam \in MouseMessages, p \in points,
       chain \in chains : mouse_hook_proc(code, wparam, p, chain)

\* a window procedure that passes WM_TIMER on without hiding the tooltip
tooltip_window_proc_timer_ignored ==
    /\ ~fault /\ mh.pc = "idle"
    /\ overlayWins # {}
    /\ last' = Last("tooltip_window_proc", "WM_TIMER")
    /\ UNCHANGED <<osVars, coreVars, monVars, dllVars, fault, writes, fnVars, variant, cli>>

\* tooltip_window_proc, lines 385-389: WM_TIMER of an overlay window
tooltip_window_proc_timer ==
    /\ ~fault /\ mh.pc = "idle"
    /\ overlayWins # {}
    /\ hide_tooltip
    /\ last' = Last("tooltip_window_proc", "WM_TIMER")
    /\ UNCHANGED <<now, bootTicks, osCbtHooks, osMouseHooks, dllRefs, classRegistered,
                   shellWin, tip, core_HOOK_HANDLE, CLOCK_WINDOWS, core_RUNNING, mh,
                   monVars, dllVars, fault, writes, fnVars, variant, cli>>

\* start_clock_hook, lines 442-470, with install_hook, lines 416-430, and
\* register_tooltip_class, lines 396-413 (RegisterClassW fails for a class that
\* is registered already; it and SetWindowsHookExW may fail)
start_clock_hook(oks) ==
    /\ ~fault /\ mh.pc = "idle"
    /\ \E regOk \in oks, hookOk \in oks :
        LET clock_windows == find_all_clock_windows
            registered == regOk /\ ~classRegistered
            hook == IF hookOk THEN NewHook(osMouseHooks) ELSE NULL
        IN
        /\ CLOCK_WINDOWS' = IF CLOCK_WINDOWS.set THEN CLOCK_WINDOWS
                            ELSE [set |-> TRUE, list |-> clock_windows]
        /\ IF clock_windows = <<>>
           THEN /\ last' = Last("start_clock_hook", "Err:no clock windows")
                /\ UNCHANGED <<classRegistered, osMouseHooks, core_HOOK_HANDLE, core_RUNNING>>
           ELSE IF ~registered
           THEN /\ last' = Last("start_clock_hook", "Err:register class")
                /\ UNCHANGED <<classRegistered, osMouseHooks, core_HOOK_HANDLE, core_RUNNING>>
           ELSE IF hook = NULL
           THEN /\ classRegistered' = TRUE
                /\ last' = Last("start_clock_hook", "Err:install hook")
                /\ UNCHANGED <<osMouseHooks, core_HOOK_HANDLE, core_RUNNING>>
           ELSE /\ classRegistered' = TRUE
                /\ osMouseHooks' = osMouseHooks \cup {hook}
                /\ core_HOOK_HANDLE' = hook
                /\ core_RUNNING' = TRUE
                /\ last' = Last("start_clock_hook", "Ok")
    /\ UNCHANGED <<now, bootTicks, osCbtHooks, dllRefs, shellWin, tip, overlayWins,
                   TOOLTIP_WINDOW, TOOLTIP_VISIBLE, mh, monVars, dllVars, fault, writes,
                   fnVars, variant, cli>>

\* stop_clock_hook, lines 472-479, with remove_hook, lines 433-439
\* (UnhookWindowsHookEx may fail; its result is not read)
stop_clock_hook(oks) ==
    /\ ~fault /\ mh.pc = "idle"
    /\ hide_tooltip
    /\ \E ok \in oks :
          osMouseHooks' = IF ok THEN osMouseHooks \ {core_HOOK_HANDLE} ELSE osMouseHooks
    /\ core_HOOK_HANDLE' = NULL
    /\ core_RUNNING' = FALSE
    /\ last' = Last("stop_clock_hook", "done")
    /\ UNCHANGED <<now, bootTicks, osCbtHooks, dllRefs, classRegistered, shellWin, tip,
                   CLOCK_WINDOWS, mh, monVars, dllVars, fault, writes, fnVars, variant, cli>>

\* is_hook_running, lines 481-483
is_hook_running == core_RUNNING

\* the shell is restarted with another set of windows
ShellChange(configs) ==
    \E cfg \in configs :
        /\ shellWin' = ShellOf(cfg)
        /\ UNCHANGED <<now, bootTicks, osCbtHooks, osMouseHooks, dllRefs, classRegistered,
                       tip, overlayWins, coreVars, monVars, dllVars, obsVars, fnVars, variant, cli>>

\* the user moves the mouse; the next WM_MOUSEMOVE reports the new position
\* (mouse_struct.pt, lines 292-294)
PointerMoves(points) ==
    \E p \in points :
        /\ p # pt
        /\ pt' = p
        /\ UNCHANGED <<osVars, coreVars, monVars, dllVars, obsVars, hit, uptimeOut, variant, cli>>


\* ------------------------------------------------- the functions, applied
\* is_point_in_any_clock, lines 145-180, applied to the point pt
HitTest ==
    /\ ~hit.done
    /\ hit' = [done |-> TRUE, value |-> is_point_in_any_clock(pt[1], pt[2])]
    /\ UNCHANGED <<osVars, coreVars, monVars, dllVars, obsVars, pt, uptimeOut, variant, cli>>

\* get_uptime (hook DLL, lines 115-131) and generate_tooltip_text (lib.rs,
\* lines 56-91) applied to the tick count
ComputeUptime ==
    /\ ~uptimeOut.done
    /\ \E skew \in IF variant = "lib.rs" THEN {0, 1} ELSE {0} :
          uptimeOut' = [done |-> TRUE, skew |-> skew,
                        text |-> IF variant = "lib.rs"
                                 THEN generate_uptime_text(GetTickCount, skew)
                                 ELSE get_uptime(GetTickCount),
                        tooltip |-> IF variant = "lib.rs"
                                    THEN generate_tooltip_text(GetTickCount, skew)
                                    ELSE new_tooltip_text(S_TimeText)]
    /\ UNCHANGED <<osVars, coreVars, monVars, dllVars, obsVars, pt, hit, variant, cli>>


\* ============================================================ specifications
NoHit == [done |-> FALSE, value |-> FALSE]
NoUptime == [done |-> FALSE, skew |-> 0, text |-> S_Empty, tooltip |-> S_Empty]

\* the state of the process after its statics are constructed
InitProgram ==
    /\ core_HOOK_HANDLE = NULL
    /\ TOOLTIP_WINDOW = NULL
    /\ core_RUNNING = TRUE
    /\ TOOLTIP_VISIBLE = FALSE
    /\ mh = IdleHook
    /\ RUNNING = FALSE
    /\ HOOK_DLL = NULL
    /\ mon = [t \in Threads |-> IdleThread]
    /\ HOOK_INSTALLED = FALSE
    /\ HOOK_HANDLE = NULL
    /\ LAST_TOOLTIP_UPDATE = None
    /\ HOOK_CALL_COUNT = 0
    /\ workers = [i \in WorkerIds |-> FreeWorker]
    /\ last = Last("none", "none")
    /\ fault = FALSE
    /\ writes = <<>>
    /\ cli = [pc |-> "off", running |-> TRUE, queue |-> <<>>]

InitOs ==
    /\ now = 0
    /\ osCbtHooks = {}
    /\ osMouseHooks = {}
    /\ dllRefs = 0
    /\ classRegistered = FALSE
    /\ tip = [h \in TipHwnds |-> NoTip]
    /\ overlayWins = {}

InitFn ==
    /\ pt = <<0, 0>>
    /\ hit = NoHit
    /\ uptimeOut = NoUptime

\* the shell's windows are those of cfg
InitShell(cfg) ==
    /\ InitProgram
    /\ InitOs
    /\ InitFn
    /\ bootTicks = [s |-> BootSeconds, ms |-> 0]
    /\ shellWin = ShellOf(cfg)
    /\ CLOCK_WINDOWS = Unset

InCall == \E t \in Threads : mon[t].pc # "idle"
InMutator == \E i \in WorkerIds : workers[i].pc \in MutatorPcs
NoWorker == \A i \in WorkerIds : workers[i].pc = "free"
Lib == variant = "lib.rs"
LibNew == variant = "lib_new.rs"
Reliable == {TRUE}
FullShell == {1, 2, 3}
TaskbarTop == {ScreenHeight - TASKBAR_BAND + 1}

\* the application is built from lib.rs, on a desktop with any of the shells
InitLib == Lib /\ \E cfg \in ShellConfigs : InitShell(cfg)

\* the application is built from lib_new.rs and loads the hook DLL
InitLibNew == LibNew /\ InitShell({})

\* ---- Spec: the lifecycle of either variant, one call at a time, with an
\* operating system whose calls may fail
Init == InitLib \/ InitLibNew

Next ==
    \/ LibNew /\ MonStep(1, BOOLEAN)
    \/ Lib /\ start_clock_hook(BOOLEAN)
    \/ Lib /\ stop_clock_hook(BOOLEAN)
    \/ Lib /\ ShellChange(ShellConfigs)

Spec == Init /\ [][Next]_vars

\* ---- SpecMonitor: lib_new.rs and the hook DLL on a desktop whose windows come
\* and go; one call and one mutator at a time
NextMonitor ==
    \/ ~InMutator /\ MonStep(1, Reliable)
    \/ ~InCall /\ ~InMutator /\ CbtCreateWnd(TipClasses, TipTops, {0})
    \/ ~InCall /\ ~InMutator /\ TipPopulate(TipTexts)
    \/ ~InCall /\ ~InMutator /\ TipDestroy
    \/ ~InCall /\ ~InMutator /\ Tick
    \/ ~InCall /\ \E i \in WorkerIds :
                    /\ InMutator => workers[i].pc \in MutatorPcs
                    /\ WorkerStep(i)

SpecMonitor == InitLibNew /\ [][NextMonitor]_vars

\* ---- SpecConc: two application threads call start_monitoring and
\* stop_monitoring, their steps interleaved; no call of the operating system fails
NextConc == \E t \in Threads : MonStep(t, Reliable)

SpecConc == InitLibNew /\ [][NextConc]_vars

\* ---- SpecPump: the process of "xclock start": main starts the monitor, runs
\* the message loop and stops the monitor; Ctrl+C and messages arrive at any
\* moment. The main thread is scheduled fairly; no message has to arrive.
NextPump ==
    \/ main_thread
    \/ main_call(BOOLEAN)
    \/ message_loop(BOOLEAN)
    \/ ctrlc_handler
    \/ PostMessage({"WM_NULL", "WM_QUIT"})

SpecPump ==
    /\ InitLibNew
    /\ [][NextPump]_vars
    /\ WF_vars(main_thread) /\ WF_vars(main_call(BOOLEAN)) /\ WF_vars(message_loop(BOOLEAN))

\* ---- SpecRace: the deferred workers of the hook DLL run as the threads they
\* are, their steps interleaved; the application starts and stops between them
NextRace ==
    \/ NoWorker /\ MonStep(1, Reliable)
    \/ ~InCall /\ CbtCreateWnd({TOOLTIPS_CLASS}, TaskbarTop, {0})
    \/ ~InCall /\ TipPopulate({S_TimeText})
    \/ ~InCall /\ TipDestroy
    \/ ~InCall /\ Tick
    \/ ~InCall /\ \E i \in WorkerIds : WorkerStep(i)

SpecRace == InitLibNew /\ [][NextRace]_vars

\* ---- SpecCallbacks: the hook callback of either variant, with every event
\* code and every result of the rest of the chain; one call and one mutator at
\* a time
InitCallbacks == (Lib /\ InitShell(FullShell)) \/ InitLibNew

NextCallbacks ==
    \/ LibNew /\ NoWorker /\ MonStep(1, Reliable)
    \/ ~InCall /\ ~InMutator /\ CbtCreateWnd(TipClasses, TaskbarTop, ChainResults)
    \/ ~InCall /\ ~InMutator /\ CbtOther(ChainResults)
    \/ ~InCall /\ ~InMutator /\ LibNew /\ TipPopulate({S_TimeText})
    \/ ~InCall /\ ~InMutator /\ LibNew /\ TipDestroy
    \/ ~InCall /\ ~InMutator /\ Tick
    \/ ~InCall /\ \E i \in WorkerIds :
                    /\ InMutator => workers[i].pc \in MutatorPcs
                    /\ WorkerStep(i)
    \/ Lib /\ start_clock_hook(Reliable)
    \/ Lib /\ stop_clock_hook(Reliable)
    \/ MouseEvent(MousePoints, ChainResults)
    \/ mouse_hook_proc_resume(BOOLEAN)
    \/ tooltip_window_proc_timer

SpecCallbacks == InitCallbacks /\ [][NextCallbacks]_vars

\* ---- SpecText: the mutator and tooltips in the taskbar area with texts that
\* have one of the markers of a time or date, or none; one call and one mutator
\* at a time
TextCases == {S_TimeText, S_PlainText, <<"A", "M">>, <<"4", "P", "M">>, <<"a", "/", "b">>,
              <<"x", "7">>, <<"A", "m">>, <<"M", "A", "P">>}

NextText ==
    \/ NoWorker /\ MonStep(1, Reliable)
    \/ ~InCall /\ ~InMutator /\ CbtCreateWnd({TOOLTIPS_CLASS}, TaskbarTop, {0})
    \/ ~InCall /\ ~InMutator /\ TipPopulate(TextCases)
    \/ ~InCall /\ ~InMutator /\ TipDestroy
    \/ ~InCall /\ ~InMutator /\ Tick
    \/ ~InCall /\ \E i \in WorkerIds :
                    /\ InMutator => workers[i].pc \in MutatorPcs
                    /\ WorkerStep(i)

SpecText == InitLibNew /\ [][NextText]_vars

\* ---- SpecHover: lib.rs with its mouse hook while the user moves the mouse,
\* the shell restarts and time passes; every event reports the position of the
\* pointer; the overlay window may fail to be created
InitHover == Lib /\ InitShell(FullShell)

NextHover ==
    \/ start_clock_hook(Reliable)
    \/ stop_clock_hook(Reliable)
    \/ PointerMoves(MousePoints)
    \/ MouseEvent({pt}, {0})
    \/ mouse_hook_proc_resume(BOOLEAN)
    \/ tooltip_window_proc_timer
    \/ ShellChange(ShellConfigs)
    \/ Tick

SpecHover == InitHover /\ [][NextHover]_vars

\* ---- SpecHoverFair: SpecHover with a message loop that delivers the WM_TIMER
\* message of an overlay window: the timer of show_tooltip (5000 ms, line 269)
\* stays armed until the window is destroyed
SpecHoverFair == SpecHover /\ WF_vars(tooltip_window_proc_timer)

\* ---- SpecHit: is_point_in_any_clock applied to one target of every class
\* and rectangle and to every point
HitClasses == {S_TrayClockWClass, S_DigitalClockWClass, S_SysDateTimePick32,
               S_TrayNotifyWnd, S_Shell_TrayWnd, S_Button}
HitRects == {<<100, 100, 200, 130>>, <<0, 0, 300, 40>>, <<-300, 0, -1, 40>>,
             <<10, 20, 110, 60>>}
HitXs == {-301, -300, -102, -101, -100, -1, 0, 9, 10, 76, 77, 99, 100, 110, 111, 150,
          199, 200, 201, 250, 300, 301}
HitYs == {-1, 0, 19, 20, 40, 41, 60, 61, 99, 100, 115, 130, 131}
HitTarget == 3
HitLists == {<<HitTarget>>, <<HitTarget + 1, HitTarget>>}

InitHit ==
    /\ Lib
    /\ InitProgram
    /\ InitOs
    /\ bootTicks = [s |-> BootSeconds, ms |-> 0]
    /\ \E cls \in HitClasses, rect \in HitRects :
          shellWin = [h \in ShellHwnds |->
                        IF h = HitTarget
                        THEN [exists |-> TRUE, cls |-> cls, rect |-> rect]
                        ELSE NoShellWin]
    /\ CLOCK_WINDOWS \in {[set |-> TRUE, list |-> l] : l \in HitLists}
    /\ pt \in HitXs \X HitYs
    /\ hit = NoHit
    /\ uptimeOut = NoUptime

NextHit == HitTest

SpecHit == InitHit /\ [][NextHit]_vars

\* ---- SpecUptime: the uptime text of either variant for every tick count of
\* whole minutes and of the last millisecond before them
InitUptime ==
    /\ variant \in Variants
    /\ InitProgram
    /\ InitOs
    /\ InitFn
    /\ shellWin = ShellOf({})
    /\ CLOCK_WINDOWS = Unset
    /\ \E d \in 0..MaxDays, h \in 0..23, m \in 0..59, sec \in {0, 59}, ms \in {0, 999} :
          bootTicks = [s |-> d * 86400 + h * 3600 + m * 60 + sec, ms |-> ms]

NextUptime == ComputeUptime

SpecUptime == InitUptime /\ [][NextUptime]_vars

\* ---- SpecUptimeLong: the uptime text of either variant for times since boot
\* around 2^32 ms (49 days 17 h 2 min 47.296 s), where GetTickCount starts
\* again at 0
InitUptimeLong ==
    /\ variant \in Variants
    /\ InitProgram
    /\ InitOs
    /\ InitFn
    /\ shellWin = ShellOf({})
    /\ CLOCK_WINDOWS = Unset
    /\ \E d \in (MaxLongDays - 1)..MaxLongDays, h \in {0, 17, 23}, m \in {0, 2, 3, 59},
          sec \in {0, 46, 47, 59}, ms \in {0, 295, 296, 999} :
          bootTicks = [s |-> d * 86400 + h * 3600 + m * 60 + sec, ms |-> ms]

SpecUptimeLong == InitUptimeLong /\ [][NextUptime]_vars


\* ==================================================================== claims
StopPcs == {"st_check", "uh_check", "uh_load", "uh_unhook", "uh_store", "uh_clear",
            "st_unload"}

C2_StopEndsStopped ==
    [][/\ last'.op = "stop_monitoring" => ~fault' /\ ~is_running'
       /\ last'.op = "stop_clock_hook" => ~fault' /\ ~is_hook_running'
       /\ (/\ last.op = "stop_monitoring"
           /\ mon[1].pc \in StopPcs \/ mon'[1].pc \in StopPcs) =>
                UNCHANGED <<osVars, coreVars, RUNNING, HOOK_DLL, dllVars, obsVars>>
       /\ (last.op = "stop_clock_hook" /\ stop_clock_hook(BOOLEAN)) => UNCHANGED vars
      ]_vars

C2_witness ==
    /\ last.op = "stop_monitoring"
    /\ mon[1].pc = "st_check"
    /\ osCbtHooks = {}

\* C3: whenever no thread is inside a call, at most one hook of this program is
\* installed and every installed hook is the one the tracked handle names.
C3_OneTrackedHook ==
    (\A t \in Threads : mon[t].pc = "idle") =>
        /\ Cardinality(osCbtHooks) <= 1
        /\ osCbtHooks \subseteq {HOOK_HANDLE}

\* C4: a mutator that reaches the cooldown gate passes it exactly when no text
\* was written before or the last write is at least 500 ms old; one that does
\* not pass ends without writing; so a write is never less than 500 ms after
\* another.
C4_Cooldown ==
    [][/\ \A i \in WorkerIds :
            (workers[i].pc = "m_check" /\ workers'[i].pc # "m_check") =>
                IF \/ writes = <<>>
                   \/ now - writes[Len(writes)].at >= TOOLTIP_UPDATE_COOLDOWN
                THEN workers'[i].pc = "m_class"
                ELSE workers'[i] = FreeWorker /\ UNCHANGED <<writes, tip>>
       /\ writes' # writes =>
            /\ Len(writes') = Len(writes) + 1
            /\ \A k \in 1..Len(writes) :
                  writes'[Len(writes')].at - writes[k].at >= TOOLTIP_UPDATE_COOLDOWN
      ]_vars

C4_witness ==
    /\ Len(writes) = 2
    /\ writes[2].at - writes[1].at = 600

\* C5: two writes of tooltip text are never less than 500 ms apart, however
\* the steps of the deferred workers interleave.
C5_NoDoubleWrite ==
    \A j \in 1..Len(writes) : \A k \in 1..(j - 1) :
        writes[j].at - writes[k].at >= TOOLTIP_UPDATE_COOLDOWN

\* C6: a hook callback that has returned has called the next hook exactly once
\* and has returned the result of that call, whatever the event.
C6_ForwardedOnce ==
    last.op \in {"cbt_hook_proc", "mouse_hook_proc"} =>
        last.fwd = 1 /\ last.ret = last.chain

C6_witness ==
    /\ last.op = "mouse_hook_proc"
    /\ last.res = "debounced"
    /\ last.chain = 1
    /\ TOOLTIP_VISIBLE

\* C7: the creation of a window of another class than tooltips_class32
\* schedules no worker and writes nothing; every worker stems from the creation
\* of a tooltips_class32 window, and text is read and written of windows of
\* that class only.
C7_OnlyTooltipClass ==
    [][/\ \A h \in TipHwnds :
            (~tip[h].exists /\ tip'[h].exists /\ tip'[h].cls # TOOLTIPS_CLASS) =>
                /\ UNCHANGED <<workers, writes>>
                /\ last'.op = "cbt_hook_proc" /\ last'.res = "passed"
       /\ \A i \in WorkerIds :
            /\ workers'[i].pc # "free" => workers'[i].origin = TOOLTIPS_CLASS
            /\ workers'[i].pc \in {"m_area", "m_gettext", "m_settext"} =>
                  tip'[workers'[i].hwnd].cls = TOOLTIPS_CLASS
       /\ writes' # writes => tip[writes'[Len(writes')].hwnd].cls = TOOLTIPS_CLASS
      ]_vars

C7_witness ==
    /\ last.op = "cbt_hook_proc"
    /\ last.res = "passed"
    /\ \E h \in TipHwnds : tip[h].exists /\ tip[h].cls = S_Button
    /\ \A i \in WorkerIds : workers[i].pc = "free"
    /\ HOOK_CALL_COUNT = 0

\* the target of the hit test and the classes that name a clock control
HitClass == shellWin[HitTarget].cls
HitRect == shellWin[HitTarget].rect
ClockTimeClasses == {S_TrayClockWClass, S_DigitalClockWClass, S_SysDateTimePick32}

\* C8: for a target whose class name contains "Clock" or "Time" the hit test
\* is true exactly for the points of the rectangle, its four edges included:
\* with (100,100)-(200,130), (150,115) is inside, (250,115) and (99,115) are not.
C8_ExactRule ==
    (hit.done /\ HitClass \in ClockTimeClasses) =>
        /\ hit.value = (/\ HitRect[1] <= pt[1] /\ pt[1] <= HitRect[3]
                        /\ HitRect[2] <= pt[2] /\ pt[2] <= HitRect[4])
        /\ HitRect = <<100, 100, 200, 130>> =>
              /\ pt = <<150, 115>> => hit.value
              /\ pt = <<250, 115>> => ~hit.value
              /\ pt = <<99, 115>> => ~hit.value

C8_witness ==
    /\ hit.done /\ hit.value
    /\ HitClass = S_SysDateTimePick32
    /\ HitRect = <<100, 100, 200, 130>>
    /\ pt = <<200, 130>>

\* C9: for a target of the class TrayNotifyWnd the hit test is true exactly
\* for the points of the rectangle from left + (width * 2) / 3 to its right
\* edge: with (0,0)-(300,40) these are the x of 200..300, 199 is outside.
C9_RightThird ==
    (hit.done /\ HitClass = S_TrayNotifyWnd) =>
        /\ hit.value = (/\ HitRect[1] + ((HitRect[3] - HitRect[1]) * 2) \div 3 <= pt[1]
                        /\ pt[1] <= HitRect[3]
                        /\ HitRect[2] <= pt[2] /\ pt[2] <= HitRect[4])
        /\ (HitRect = <<0, 0, 300, 40>> /\ pt[2] \in 0..40) =>
              hit.value = (pt[1] \in 200..300)

C9_witness ==
    /\ hit.done /\ hit.value
    /\ HitClass = S_TrayNotifyWnd
    /\ HitRect = <<0, 0, 300, 40>>
    /\ pt = <<200, 20>>

\* the days, hours and minutes of the uptime the text is made of
UptimeSeconds == SubMs(bootTicks, uptimeOut.skew).s
UptimeDays == UptimeSeconds \div 86400
UptimeHours == (UptimeSeconds % 86400) \div 3600
UptimeMinutes == (UptimeSeconds % 3600) \div 60

\* C10: the uptime text is "{d}d {h}h {m}m" when days > 0, "{h}h {m}m" when
\* days = 0 and hours > 0, and "{m}m" when both are 0: "5m", "1d 2h 3m", "3h 0m".
C10_UptimeFormat ==
    uptimeOut.done =>
        /\ UptimeHours < 24 /\ UptimeMinutes < 60
        /\ UptimeDays > 0 =>
              uptimeOut.text = DecStr(UptimeDays) \o <<"d", " ">> \o DecStr(UptimeHours)
                                \o <<"h", " ">> \o DecStr(UptimeMinutes) \o <<"m">>
        /\ (UptimeDays = 0 /\ UptimeHours > 0) =>
              uptimeOut.text = DecStr(UptimeHours) \o <<"h", " ">>
                                \o DecStr(UptimeMinutes) \o <<"m">>
        /\ (UptimeDays = 0 /\ UptimeHours = 0) =>
              uptimeOut.text = DecStr(UptimeMinutes) \o <<"m">>
        /\ (UptimeDays = 0 /\ UptimeHours = 0 /\ UptimeMinutes = 5) =>
              uptimeOut.text = <<"5", "m">>
        /\ (UptimeDays = 1 /\ UptimeHours = 2 /\ UptimeMinutes = 3) =>
              uptimeOut.text = <<"1", "d", " ", "2", "h", " ", "3", "m">>
        /\ (UptimeDays = 0 /\ UptimeHours = 3 /\ UptimeMinutes = 0) =>
              uptimeOut.text = <<"3", "h", " ", "0", "m">>

C10_witness ==
    /\ uptimeOut.done
    /\ LibNew
    /\ uptimeOut.text = <<"3", "h", " ", "0", "m">>

\* the results of a start_monitoring that failed at one of its steps
FailedStart == {"Err:load", "Err:DLL not loaded", "Err:install"}

\* C11: a start that fails, made while no hook is tracked, has attempted the
\* installation at most once and leaves the program stopped: the running flag
\* reads false and no hook handle is tracked.
C11_FailedStartStopped ==
    [][/\ (/\ Lib /\ core_HOOK_HANDLE = NULL
           /\ start_clock_hook(BOOLEAN) /\ last'.res # "Ok") =>
                /\ ~is_hook_running'
                /\ core_HOOK_HANDLE' = NULL
                /\ osMouseHooks' = osMouseHooks
       /\ \A t \in Threads :
            (/\ LibNew /\ mon[t].pc # "idle" /\ mon'[t].pc = "idle"
             /\ last'.op = "start_monitoring" /\ last'.res \in FailedStart) =>
                /\ ~is_running'
                /\ HOOK_HANDLE' = NULL
                /\ osCbtHooks' = osCbtHooks
      ]_vars

\* C12: a start that fails leaves the resources as they were before the call:
\* the window class, the published target set and the hooks for lib.rs; for
\* lib_new.rs, where the call before it was a stop or there was none (so that
\* no hook DLL was loaded), no hook DLL is loaded when it returns.
C12_FailedStartTornDown ==
    [][/\ (Lib /\ start_clock_hook(BOOLEAN) /\ last'.res # "Ok") =>
                UNCHANGED <<classRegistered, CLOCK_WINDOWS, osMouseHooks, core_HOOK_HANDLE>>
       /\ \A t \in Threads :
            (/\ LibNew /\ mon[t].pc # "idle" /\ mon'[t].pc = "idle"
             /\ last.op \in {"none", "stop_monitoring"}
             /\ last'.op = "start_monitoring" /\ last'.res \in FailedStart) =>
                /\ HOOK_DLL' = NULL
                /\ dllRefs' = 0
      ]_vars

\* C13: in every state the running flag is true only if a start has installed
\* a hook that is still tracked (no stop has been requested since).
C13_RunningOnlyAfterStart ==
    /\ (Lib /\ is_hook_running) =>
            core_HOOK_HANDLE # NULL /\ core_HOOK_HANDLE \in osMouseHooks
    /\ (LibNew /\ is_running) =>
            HOOK_INSTALLED /\ HOOK_HANDLE # NULL /\ HOOK_HANDLE \in osCbtHooks

\* C14: once a stop has returned no hook of this program is installed, and a
\* tracked handle that was cleared belonged to a hook that is gone.
C14_StopLeavesNoHook ==
    /\ (Lib /\ last.op = "stop_clock_hook") => osMouseHooks = {}
    /\ (Lib /\ core_HOOK_HANDLE = NULL) => osMouseHooks = {}
    /\ (LibNew /\ last.op = "stop_monitoring" /\ ~InCall) => osCbtHooks = {}

\* C15: the thread the operating system delivers events on is never inside a
\* hook callback waiting for a delay to pass: a callback returns in the step
\* that delivers its event, and delays are waited for by workers.
C15_NoSleepInCallback ==
    /\ mh.pc = "idle"
    /\ \A i \in WorkerIds : workers[i].pc = "sleep" => workers[i].hwnd \in TipHwnds

\* C16: the overlay tooltip becomes visible only at the end of a debounce
\* that has lasted its 100 ms, and only if the pointer is inside a target at
\* that moment; when the pointer has left the targets meanwhile, it is not shown.
C16_ShownOnlyIfStillInside ==
    [][(~TOOLTIP_VISIBLE /\ TOOLTIP_VISIBLE') =>
            /\ mh.pc = "debounce" /\ mh'.pc = "idle"
            /\ now >= mh.wake
            /\ is_point_in_any_clock(pt[1], pt[2])
      ]_vars

MouseButtonDowns == {"WM_LBUTTONDOWN", "WM_RBUTTONDOWN", "WM_MBUTTONDOWN"}

\* C17: when the mouse hook has handled a move to a point outside every
\* target or the press of a button, no overlay window exists, none is tracked
\* and the visible flag is false, whatever they were before.
C17_HiddenOnExitOrButton ==
    [][\A code \in MouseCodes, wparam \in MouseMessages :
          (/\ mouse_hook_proc(code, wparam, pt, 0)
           /\ code >= 0
           /\ \/ wparam \in MouseButtonDowns
              \/ wparam = "WM_MOUSEMOVE" /\ ~is_point_in_any_clock(pt[1], pt[2])) =>
                /\ overlayWins' = {}
                /\ TOOLTIP_WINDOW' = NULL
                /\ ~TOOLTIP_VISIBLE'
      ]_vars

C17_witness ==
    /\ last.op = "mouse_hook_proc"
    /\ last.res = "outside"
    /\ core_HOOK_HANDLE # NULL
    /\ overlayWins = {}
    /\ ~TOOLTIP_VISIBLE
    /\ now >= DEBOUNCE_DELAY

RejectPcs == {"m_check", "m_class", "m_area", "m_gettext", "m_settext"}

\* C18: the time of the last update never becomes an earlier one, however the
\* steps of the workers interleave; it changes only in the step of a worker
\* that has written a text; and a mutation that ends at the cooldown, the class
\* check, the area check, the time/date check or a failed write leaves it, the
\* texts and the writes as they were.
C18_TimestampForward ==
    [][/\ LAST_TOOLTIP_UPDATE # None =>
            LAST_TOOLTIP_UPDATE' # None /\ LAST_TOOLTIP_UPDATE' >= LAST_TOOLTIP_UPDATE
       /\ LAST_TOOLTIP_UPDATE' # LAST_TOOLTIP_UPDATE =>
            \E i \in WorkerIds :
                /\ workers[i].pc # "free" /\ workers'[i].pc = "free"
                /\ \E k \in 1..Len(writes) :
                      writes[k].by = i /\ writes[k].hwnd = workers[i].hwnd
       /\ \A i \in WorkerIds :
            (workers[i].pc \in RejectPcs /\ workers'[i].pc = "free") =>
                UNCHANGED <<LAST_TOOLTIP_UPDATE, tip, writes>>
      ]_vars

\* C19: a worker is born asleep, by a creation event, with its wake-up time
\* 100 ms ahead; the mutator is entered only by a worker that wakes when that
\* time has come and finds that its window exists; a worker whose window
\* does not exist when it wakes ends there, and nothing is read or written; and
\* a text is written only of a window that exists.
C19_DeferredAndValidated ==
    [][/\ \A i \in WorkerIds :
            /\ (workers[i].pc = "free" /\ workers'[i].pc # "free") =>
                  /\ workers'[i].pc = "sleep"
                  /\ workers'[i].wake = now + SETTLE_DELAY
                  /\ last'.op = "cbt_hook_proc" /\ last'.res = "scheduled"
                  /\ ~tip[workers'[i].hwnd].exists /\ tip'[workers'[i].hwnd].exists
            /\ (workers[i].pc = "sleep" /\ workers'[i].pc # "sleep") =>
                  /\ now >= workers[i].wake
                  /\ IF tip[workers[i].hwnd].exists
                     THEN workers'[i].pc = "m_check"
                     ELSE workers'[i] = FreeWorker
                  /\ UNCHANGED <<tip, writes, LAST_TOOLTIP_UPDATE>>
            /\ (workers'[i].pc \in MutatorPcs /\ workers[i].pc \notin MutatorPcs) =>
                  workers[i].pc = "sleep" /\ tip[workers[i].hwnd].exists
       /\ writes' # writes =>
            /\ tip[writes'[Len(writes')].hwnd].exists
            /\ writes'[Len(writes')].at >= SETTLE_DELAY
       /\ \A h \in TipHwnds : ~tip[h].exists => (tip'[h].exists \/ tip'[h] = NoTip)
      ]_vars

C19_witness ==
    \E i \in WorkerIds :
        /\ workers[i].pc = "m_check"
        /\ now = workers[i].wake
        /\ tip[workers[i].hwnd].exists
        /\ \E j \in WorkerIds : workers[j].pc = "free"
        /\ last.res = "scheduled"

\* the text has one of the markers: a colon, a slash, AM, PM or a digit
TimeLike(text) ==
    \/ \E k \in 1..Len(text) : text[k] \in {":", "/"} \cup {Digit(d) : d \in 0..9}
    \/ \E k \in 1..(Len(text) - 1) : text[k] \in {"A", "P"} /\ text[k + 1] = "M"

\* C20: the mutator goes on to write only when the text it has read is not
\* empty and has a marker of a time or date; otherwise it ends and the text,
\* the writes and the time of the last update are as they were; a text that
\* changes is such a text, and the new text is the old one with lines appended.
C20_OnlyTimeLikeChanged ==
    [][/\ \A i \in WorkerIds :
            (workers[i].pc = "m_gettext" /\ workers'[i].pc # "m_gettext") =>
                LET text == tip[workers[i].hwnd].text IN
                /\ UNCHANGED <<tip, writes, LAST_TOOLTIP_UPDATE>>
                /\ IF tip[workers[i].hwnd].exists /\ text # S_Empty /\ TimeLike(text)
                   THEN workers'[i].pc = "m_settext" /\ workers'[i].text = text
                   ELSE workers'[i] = FreeWorker
       /\ \A h \in TipHwnds :
            (tip[h].exists /\ tip[h].text # S_Empty /\ tip'[h].text # tip[h].text) =>
                \/ tip'[h] = NoTip
                \/ /\ TimeLike(tip[h].text)
                   /\ Len(tip'[h].text) > Len(tip[h].text)
                   /\ SubSeq(tip'[h].text, 1, Len(tip[h].text)) = tip[h].text
                   /\ Len(writes') = Len(writes) + 1
       /\ writes' # writes =>
            LET h == writes'[Len(writes')].hwnd IN
            /\ tip[h].text # S_Empty /\ TimeLike(tip[h].text)
            /\ tip'[h].text # tip[h].text
      ]_vars

C20_witness ==
    /\ \E h \in TipHwnds : tip[h].exists /\ tip[h].text = <<"A", "m">>
    /\ last.op = "cbt_hook_proc" /\ last.res = "scheduled"
    /\ \A i \in WorkerIds : workers[i].pc = "free"
    /\ now = SETTLE_DELAY
    /\ writes = <<>>
    /\ LAST_TOOLTIP_UPDATE = None

C22_LocatorList ==
    [][(Lib /\ ~CLOCK_WINDOWS.set /\ start_clock_hook(BOOLEAN)) =>
          LET list == CLOCK_WINDOWS'.list
              controls == SelectSeq(<<3, 4, 5>>, LAMBDA h : shellWin[h].exists)
          IN /\ shellWin[1].exists => list # <<>>
             /\ SelectSeq(list, LAMBDA h : h \in {3, 4, 5}) = controls
             /\ (\E k \in 1..Len(list) : list[k] \notin {3, 4, 5}) <=>
                    (shellWin[1].exists /\ controls = <<>>)
      ]_vars

\* C23: when a start has installed the hook, the target set the hit test
\* reads is the list of the windows that start has found.
C23_TargetSetOfThisStart ==
    [][(Lib /\ start_clock_hook(BOOLEAN) /\ last'.res = "Ok") =>
          /\ CLOCK_WINDOWS'.set
          /\ CLOCK_WINDOWS'.list = find_all_clock_windows
      ]_vars

\* C24: a start that follows a stop, with an operating system whose calls do
\* not fail and a shell that has a target, succeeds: the program runs again
\* and exactly one hook is installed.
C24_Restartable ==
    [][/\ (/\ Lib /\ last.op = "stop_clock_hook"
           /\ find_all_clock_windows # <<>>
           /\ start_clock_hook(Reliable)) =>
                /\ last'.res = "Ok"
                /\ is_hook_running'
                /\ osMouseHooks' = {core_HOOK_HANDLE'}
       /\ (/\ LibNew /\ last.op = "stop_monitoring"
           /\ mon[1].pc = "sm_ret" /\ mon'[1].pc = "idle") =>
                /\ last' = Last("start_monitoring", "Ok")
                /\ is_running'
                /\ osCbtHooks' = {HOOK_HANDLE'}
      ]_vars

\* C25: a visible overlay tooltip is eventually hidden, when the WM_TIMER
\* message of its window is delivered fairly.
C25_TooltipEventuallyHidden == TOOLTIP_VISIBLE ~> ~TOOLTIP_VISIBLE

C25_witness ==
    /\ last = Last("tooltip_window_proc", "WM_TIMER")
    /\ ~TOOLTIP_VISIBLE /\ TOOLTIP_WINDOW = NULL /\ overlayWins = {}
    /\ is_hook_running /\ is_point_in_any_clock(pt[1], pt[2])

\* C26: once RUNNING is cleared or the Ctrl+C flag of main is cleared while
\* main is in its loop, main leaves the loop and stop_monitoring is called
\* and returns, whether or not a message arrives.
C26_CancellationEndsPump ==
    (cli.pc \in {"loop", "ml_check", "ml_wait"} /\ (~cli.running \/ ~is_running))
        ~> (cli.pc = "exit" /\ last = Last("stop_monitoring", "done"))

C28_OverlayConsistent ==
    /\ TOOLTIP_VISIBLE <=> TOOLTIP_WINDOW # NULL
    /\ overlayWins = {TOOLTIP_WINDOW} \ {NULL}
    /\ Cardinality(overlayWins) <= 1

C28_witness ==
    /\ last = Forwarded("debounced", 0)
    /\ TOOLTIP_VISIBLE
    /\ overlayWins = {TOOLTIP_WINDOW}
    /\ now >= DEBOUNCE_DELAY

\* C29: the days, hours and minutes of the uptime text are those of the time
\* that has passed since boot, with hours below 24 and minutes below 60, also
\* when that time is longer than 2^32 ms.
C29_UptimeIsElapsedTime ==
    uptimeOut.done =>
        /\ UptimeHours < 24 /\ UptimeMinutes < 60
        /\ uptimeOut.text =
              IF UptimeDays > 0
              THEN DecStr(UptimeDays) \o <<"d", " ">> \o DecStr(UptimeHours)
                     \o <<"h", " ">> \o DecStr(UptimeMinutes) \o <<"m">>
              ELSE IF UptimeHours > 0
              THEN DecStr(UptimeHours) \o <<"h", " ">> \o DecStr(UptimeMinutes) \o <<"m">>
              ELSE DecStr(UptimeMinutes) \o <<"m">>

=============================================================================
